---------------------------- MODULE Spec2Model ----------------------------
(***************************************************************************)
(* Model of the land-grab-demo interaction pipeline:                       *)
(*   api/landApi.js            the cell state store                        *)
(*   interactions/pointerEvents.js   the domain event bus and handlers     *)
(*   platform/web/input.js     the pointer mapper (currentHoveredCellId)   *)
(*   core/events, core/domain  event and cell factories                    *)
(*                                                                         *)
(* JavaScript objects have identity: the store's Map holds references to   *)
(* cell record objects, and getState() copies the Map but not the records. *)
(* The model therefore keeps a heap (reference -> record) and the Map as   *)
(* cell id -> reference.  Every JS function is an operator from a machine  *)
(* record m (the whole mutable program state plus the per-call logs) to    *)
(* the machine record after the call; m.threw tells that an exception is   *)
(* propagating.  Date.now() timestamps (createdAt, timestamp) are read by  *)
(* no code and are left out of the records.                                *)
(***************************************************************************)
EXTENDS Integers, Sequences, FiniteSets, TLC

VARIABLES
    selectedCellId,        \* landApi.js state.selectedCellId
    hoveredCellId,         \* landApi.js state.hoveredCellId
    cells,                 \* landApi.js state.cells : cell id -> reference
    heap,                  \* the live cell record objects : reference -> record
    subscribers,           \* landApi.js subscribers (a Set: insertion order)
    eventListeners,        \* pointerEvents.js eventListeners : type -> Set
    currentHoveredCellId,  \* input.js module variable
    throwers,              \* the callbacks that throw when invoked
    registered,            \* per event type, the callbacks registered and
                           \* not unsubscribed since, in registration order
    mounted,               \* whether HexGrid is mounted
    apiState,              \* HexGrid's React state apiState
    viewCenterCellId,      \* HexGrid's React state viewCenterCellId
    hexCells,              \* HexGrid's memoized visible cell set
    colors,                \* the color prop of each HexCell of the last render
    recomputes,            \* runs of the hexCells factory in the last call
    snap,                  \* the snapshot objects a caller holds (at most one)
    held,                  \* the calls made since that snapshot was taken
    lastOp,                \* the call made last
    prevOp,                \* the call before it, when that was a store call
    notified,              \* store-subscriber invocations of the last call
    events,                \* domain events emitted by the last call
    heard,                 \* event-listener invocations of the last call
    threw,                 \* whether the last call ended with an exception
    openHover,             \* the cell of the last CELL_HOVERED event of the
                           \* pointer callbacks, until a CELL_UNHOVERED follows
    geo                    \* a coordinate conversion under way: its input,
                           \* the point and the coordinates computed so far

vars == <<selectedCellId, hoveredCellId, cells, heap, subscribers,
          eventListeners, currentHoveredCellId, throwers, registered,
          mounted, apiState, viewCenterCellId, hexCells, colors, recomputes,
          snap, held, lastOp, prevOp, notified, events, heard, threw, openHover,
          geo>>

---------------------------------------------------------------------------
(* Bounds of the model *)

NumCells == 3
NumListeners == 2
\* how many calls are followed after a caller has taken a snapshot
MaxHeldCalls == 2

\* how many registrations of event callbacks are in force at once
MaxRegistered == 2
\* the ring-step estimates run over the even degrees up to twice this
MaxRingSteps == 7

CellIds == 1..NumCells
Listeners == 1..NumListeners
\* two distinct surface points resolve to each cell, point 0 to no cell
Points == 0..(2 * NumCells)
\* camera position p > 0 faces cell p, position 0 is the globe's centre
CameraPositions == 0..NumCells

---------------------------------------------------------------------------
(* Values *)

NULL == 0
UNDEFINED == -1

DEFAULT == "default"
HOVERED == "hovered"
SELECTED == "selected"
OWNED == "owned"
FOREIGN == "foreign"
CellState == {DEFAULT, HOVERED, SELECTED, OWNED, FOREIGN}

CELL_SELECTED == "CELL_SELECTED"
CELL_HOVERED == "CELL_HOVERED"
CELL_UNHOVERED == "CELL_UNHOVERED"
EventTypes == {CELL_SELECTED, CELL_HOVERED, CELL_UNHOVERED}

\* JavaScript truthiness of a cell id (ids are non-empty strings)
Truthy(x) == x # NULL /\ x # UNDEFINED

EmptyMap == [x \in {} |-> NULL]

MapSet(f, k, v) == [x \in DOMAIN f \cup {k} |-> IF x = k THEN v ELSE f[x]]

MapDelete(f, k) == [x \in DOMAIN f \ {k} |-> f[x]]

\* object spread {...a, ...b}: the fields of b override those of a
Spread(a, b) ==
    [k \in DOMAIN a \cup DOMAIN b |-> IF k \in DOMAIN b THEN b[k] ELSE a[k]]

Range(f) == {f[x] : x \in DOMAIN f}

SeqRemove(s, x) == SelectSeq(s, LAMBDA y : y # x)

SeqHas(s, x) == \E i \in 1..Len(s) : s[i] = x

\* Set.prototype.add keeps the first insertion position
SetAdd(s, x) == IF SeqHas(s, x) THEN s ELSE Append(s, x)

---------------------------------------------------------------------------
(* core/domain/cell.js *)

createCell(id) ==
    [id |-> id, state |-> DEFAULT, ownerId |-> NULL, structures |-> <<>>]

---------------------------------------------------------------------------
(* core/events/index.js *)

createEvent(type, payload) == [type |-> type, payload |-> payload]

cellSelected(cellId, metadata) ==
    createEvent(CELL_SELECTED, Spread([cellId |-> cellId], metadata))

cellHovered(cellId) == createEvent(CELL_HOVERED, [cellId |-> cellId])

cellUnhovered(cellId) == createEvent(CELL_UNHOVERED, [cellId |-> cellId])

---------------------------------------------------------------------------
(* The heap of record objects *)

\* a fresh object gets the least reference not in use
NewRef(h) ==
    CHOOSE r \in 1..(Cardinality(DOMAIN h) + 1) :
        /\ r \notin DOMAIN h
        /\ \A q \in 1..(r - 1) : q \in DOMAIN h

RECURSIVE SortedSeq(_)
SortedSeq(S) ==
    IF S = {} THEN <<>>
    ELSE LET x == CHOOSE x \in S : \A y \in S : x <= y
         IN  <<x>> \o SortedSeq(S \ {x})

\* the references of a Map's entries, in the order of its keys
RefsOf(cs) == [i \in 1..Cardinality(DOMAIN cs) |-> cs[SortedSeq(DOMAIN cs)[i]]]

\* References are observable only through identity.  After a call the
\* objects reachable from nowhere are dropped and the live ones renamed to
\* 1..n: first the store's records in key order, then the records only a
\* held snapshot still refers to.
Collect(m) ==
    LET sc == IF m.snap = <<>> THEN EmptyMap ELSE m.snap[1].cells
        only == [c \in {c \in DOMAIN sc : sc[c] \notin Range(m.cells)} |-> sc[c]]
        live == RefsOf(m.cells) \o RefsOf(only)
        rn(r) == CHOOSE i \in 1..Len(live) : live[i] = r
    IN  [m EXCEPT
            !.cells = [c \in DOMAIN m.cells |-> rn(m.cells[c])],
            !.heap = [i \in 1..Len(live) |-> m.heap[live[i]]],
            !.snap = IF m.snap = <<>> THEN <<>>
                     ELSE [m.snap EXCEPT ![1].cells = [c \in DOMAIN sc |-> rn(sc[c])]]]

\* state.cells.set(k, {...}) : the Map entry k refers to a new object
cellsSet(m, k, rec) ==
    LET r == NewRef(m.heap)
    IN  [m EXCEPT !.cells = MapSet(@, k, r), !.heap = MapSet(@, r, rec)]

cellsHas(m, k) == k \in DOMAIN m.cells

cellsGet(m, k) == m.heap[m.cells[k]]

\* what a reader of a snapshot object sees through its references
Deref(s, h) ==
    [selectedCellId |-> s.selectedCellId,
     hoveredCellId |-> s.hoveredCellId,
     cells |-> [c \in DOMAIN s.cells |-> h[s.cells[c]]]]

---------------------------------------------------------------------------
(* api/landApi.js *)

getState(m) ==
    [selectedCellId |-> m.selectedCellId,
     hoveredCellId |-> m.hoveredCellId,
     cells |-> m.cells]

getCell(m, cellId) ==
    IF cellsHas(m, cellId) THEN cellsGet(m, cellId) ELSE NULL

\* HexGrid.jsx setApiState, the callback HexGrid subscribes (listener 1):
\* React keeps the snapshot and schedules a re-render.  The store replaces
\* record objects and never writes them, so the snapshot is kept by value.
SetApiState == 1

setApiState(m, s) == [m EXCEPT !.apiState = <<s>>, !.rerender = TRUE]

RECURSIVE notifyFrom(_, _)
notifyFrom(m, i) ==
    IF i > Len(subscribers) THEN m
    ELSE LET l == subscribers[i]
             s == Deref(getState(m), m.heap)
             m1 == [m EXCEPT !.notified =
                        Append(@, [listener |-> l, snapshot |-> s])]
             m2 == IF m.mounted /\ l = SetApiState
                   THEN setApiState(m1, s) ELSE m1
         IN  IF l \in throwers THEN [m2 EXCEPT !.threw = TRUE]
             ELSE notifyFrom(m2, i + 1)

\* Faulty variant: notifySubscribers that catches what a callback throws
notifySubscribers_isolated(m) ==
    LET s == Deref(getState(m), m.heap)
    IN  [m EXCEPT !.notified =
            @ \o [i \in 1..Len(subscribers) |->
                     [listener |-> subscribers[i], snapshot |-> s]]]

notifySubscribers(m) == notifyFrom(m, 1)

\* Faulty variants of the store operations, used to show that the checked
\* properties depend on the code.

\* selectCell that forgets to demote the previous selection
selectCell_keepsPrevious(m, cellId) ==
    LET m1 == IF ~cellsHas(m, cellId)
              THEN cellsSet(m, cellId, createCell(cellId)) ELSE m
        m3 == [m1 EXCEPT !.selectedCellId = cellId]
        m4 == cellsSet(m3, cellId, [cellsGet(m3, cellId) EXCEPT !.state = SELECTED])
    IN  notifySubscribers(m4)

\* selectCell that returns early, without notifying, on the selected cell
selectCell_skipsWhenSelected(m, cellId) ==
    IF m.selectedCellId = cellId THEN m
    ELSE
    LET m1 == IF ~cellsHas(m, cellId)
              THEN cellsSet(m, cellId, createCell(cellId)) ELSE m
        m2 == IF Truthy(m1.selectedCellId) /\ cellsHas(m1, m1.selectedCellId)
              THEN cellsSet(m1, m1.selectedCellId,
                       [cellsGet(m1, m1.selectedCellId) EXCEPT !.state = DEFAULT])
              ELSE m1
        m3 == [m2 EXCEPT !.selectedCellId = cellId]
        m4 == cellsSet(m3, cellId, [cellsGet(m3, cellId) EXCEPT !.state = SELECTED])
    IN  notifySubscribers(m4)

\* clearSelection that does not notify when nothing was selected
clearSelection_quietWhenEmpty(m) ==
    IF ~Truthy(m.selectedCellId) THEN m
    ELSE
    LET m1 == IF cellsHas(m, m.selectedCellId)
              THEN cellsSet(m, m.selectedCellId,
                       [cellsGet(m, m.selectedCellId) EXCEPT !.state = DEFAULT])
              ELSE m
        m2 == [m1 EXCEPT !.selectedCellId = NULL]
    IN  notifySubscribers(m2)

\* setHoveredCell that marks the new cell HOVERED even when it is SELECTED
setHoveredCell_overridesSelected(m, cellId) ==
    IF m.hoveredCellId = cellId THEN m
    ELSE
    LET m1 == IF /\ Truthy(m.hoveredCellId)
                 /\ cellsHas(m, m.hoveredCellId)
                 /\ cellsGet(m, m.hoveredCellId).state = HOVERED
              THEN cellsSet(m, m.hoveredCellId,
                       [cellsGet(m, m.hoveredCellId) EXCEPT !.state = DEFAULT])
              ELSE m
        m2 == [m1 EXCEPT !.hoveredCellId = cellId]
        m3 == IF Truthy(cellId) /\ ~cellsHas(m2, cellId)
              THEN cellsSet(m2, cellId, createCell(cellId)) ELSE m2
        m4 == IF Truthy(cellId)
              THEN cellsSet(m3, cellId,
                       [cellsGet(m3, cellId) EXCEPT !.state = HOVERED])
              ELSE m3
    IN  notifySubscribers(m4)

\* setHoveredCell without the early return on an unchanged hover
setHoveredCell_noEarlyReturn(m, cellId) ==
    LET m1 == IF /\ Truthy(m.hoveredCellId)
                 /\ m.hoveredCellId # cellId
                 /\ cellsHas(m, m.hoveredCellId)
                 /\ cellsGet(m, m.hoveredCellId).state = HOVERED
              THEN cellsSet(m, m.hoveredCellId,
                       [cellsGet(m, m.hoveredCellId) EXCEPT !.state = DEFAULT])
              ELSE m
        m2 == [m1 EXCEPT !.hoveredCellId = cellId]
        m3 == IF Truthy(cellId) /\ ~cellsHas(m2, cellId)
              THEN cellsSet(m2, cellId, createCell(cellId)) ELSE m2
        m4 == IF Truthy(cellId) /\ cellsGet(m3, cellId).state # SELECTED
              THEN cellsSet(m3, cellId,
                       [cellsGet(m3, cellId) EXCEPT !.state = HOVERED])
              ELSE m3
    IN  notifySubscribers(m4)

\* setHoveredCell that demotes the previous hover whatever its stored state
setHoveredCell_demotesAny(m, cellId) ==
    IF m.hoveredCellId = cellId THEN m
    ELSE
    LET m1 == IF Truthy(m.hoveredCellId) /\ cellsHas(m, m.hoveredCellId)
              THEN cellsSet(m, m.hoveredCellId,
                       [cellsGet(m, m.hoveredCellId) EXCEPT !.state = DEFAULT])
              ELSE m
        m2 == [m1 EXCEPT !.hoveredCellId = cellId]
        m3 == IF Truthy(cellId) /\ ~cellsHas(m2, cellId)
              THEN cellsSet(m2, cellId, createCell(cellId)) ELSE m2
        m4 == IF Truthy(cellId) /\ cellsGet(m3, cellId).state # SELECTED
              THEN cellsSet(m3, cellId,
                       [cellsGet(m3, cellId) EXCEPT !.state = HOVERED])
              ELSE m3
    IN  notifySubscribers(m4)

\* setHoveredCell that leaves the previous hover's record as it is
setHoveredCell_keepsPrevious(m, cellId) ==
    IF m.hoveredCellId = cellId THEN m
    ELSE
    LET m2 == [m EXCEPT !.hoveredCellId = cellId]
        m3 == IF Truthy(cellId) /\ ~cellsHas(m2, cellId)
              THEN cellsSet(m2, cellId, createCell(cellId)) ELSE m2
        m4 == IF Truthy(cellId) /\ cellsGet(m3, cellId).state # SELECTED
              THEN cellsSet(m3, cellId,
                       [cellsGet(m3, cellId) EXCEPT !.state = HOVERED])
              ELSE m3
    IN  notifySubscribers(m4)

\* clearSelection that drops the record of the deselected cell
clearSelection_deletesRecord(m) ==
    LET m1 == IF Truthy(m.selectedCellId) /\ cellsHas(m, m.selectedCellId)
              THEN [m EXCEPT !.cells = MapDelete(@, m.selectedCellId)]
              ELSE m
        m2 == [m1 EXCEPT !.selectedCellId = NULL]
    IN  notifySubscribers(m2)

selectCell(m, cellId) ==
    LET m1 == IF ~cellsHas(m, cellId)
              THEN cellsSet(m, cellId, createCell(cellId)) ELSE m
        m2 == IF Truthy(m1.selectedCellId) /\ cellsHas(m1, m1.selectedCellId)
              THEN cellsSet(m1, m1.selectedCellId,
                       [cellsGet(m1, m1.selectedCellId) EXCEPT !.state = DEFAULT])
              ELSE m1
        m3 == [m2 EXCEPT !.selectedCellId = cellId]
        m4 == cellsSet(m3, cellId, [cellsGet(m3, cellId) EXCEPT !.state = SELECTED])
    IN  notifySubscribers(m4)

clearSelection(m) ==
    LET m1 == IF Truthy(m.selectedCellId) /\ cellsHas(m, m.selectedCellId)
              THEN cellsSet(m, m.selectedCellId,
                       [cellsGet(m, m.selectedCellId) EXCEPT !.state = DEFAULT])
              ELSE m
        m2 == [m1 EXCEPT !.selectedCellId = NULL]
    IN  notifySubscribers(m2)

setHoveredCell(m, cellId) ==
    IF m.hoveredCellId = cellId THEN m
    ELSE
    LET m1 == IF /\ Truthy(m.hoveredCellId)
                 /\ cellsHas(m, m.hoveredCellId)
                 /\ cellsGet(m, m.hoveredCellId).state = HOVERED
              THEN cellsSet(m, m.hoveredCellId,
                       [cellsGet(m, m.hoveredCellId) EXCEPT !.state = DEFAULT])
              ELSE m
        m2 == [m1 EXCEPT !.hoveredCellId = cellId]
        m3 == IF Truthy(cellId) /\ ~cellsHas(m2, cellId)
              THEN cellsSet(m2, cellId, createCell(cellId)) ELSE m2
        m4 == IF Truthy(cellId) /\ cellsGet(m3, cellId).state # SELECTED
              THEN cellsSet(m3, cellId,
                       [cellsGet(m3, cellId) EXCEPT !.state = HOVERED])
              ELSE m3
    IN  notifySubscribers(m4)

---------------------------------------------------------------------------
(* interactions/pointerEvents.js *)

\* Faulty variant: addEventListener that puts the newest callback first
addEventListener_newestFirst(ls, eventType, callback) ==
    LET set == IF eventType \in DOMAIN ls THEN ls[eventType] ELSE <<>>
    IN  MapSet(ls, eventType,
               IF SeqHas(set, callback) THEN set ELSE <<callback>> \o set)

\* eventListeners after addEventListener(eventType, callback)
addEventListener(ls, eventType, callback) ==
    LET set == IF eventType \in DOMAIN ls THEN ls[eventType] ELSE <<>>
    IN  MapSet(ls, eventType, SetAdd(set, callback))

\* eventListeners after a call of the function addEventListener returned:
\* eventListeners.get(eventType)?.delete(callback)
removeEventListener(ls, eventType, callback) ==
    IF eventType \in DOMAIN ls
    THEN MapSet(ls, eventType, SeqRemove(ls[eventType], callback))
    ELSE ls

RECURSIVE emitFrom(_, _, _)
emitFrom(m, event, i) ==
    LET ls == eventListeners[event.type]
    IN  IF i > Len(ls) THEN m
        ELSE LET l == ls[i]
                 \* the callback may read the store: what getState() shows
                 \* it, and how many subscriber notifications came before
                 m1 == [m EXCEPT !.heard =
                            Append(@, [listener |-> l, event |-> event,
                                       store |-> Deref(getState(m), m.heap),
                                       notified |-> Len(m.notified)])]
             IN  IF l \in throwers THEN [m1 EXCEPT !.threw = TRUE]
                 ELSE emitFrom(m1, event, i + 1)

emitEvent(m, event) ==
    LET m1 == [m EXCEPT !.events = Append(@, event)]
    IN  IF event.type \in DOMAIN eventListeners
        THEN emitFrom(m1, event, 1) ELSE m1

\* Faulty variant: handleCellSelect that updates the store before it emits
handleCellSelect_selectsFirst(m, cellId, metadata) ==
    LET m1 == selectCell(m, cellId)
    IN  IF m1.threw THEN m1 ELSE emitEvent(m1, cellSelected(cellId, metadata))

\* Faulty variant: handleCellSelect that announces the selection only
handleCellSelect_emitOnly(m, cellId, metadata) ==
    emitEvent(m, cellSelected(cellId, metadata))

handleCellSelect(m, cellId, metadata) ==
    LET m1 == emitEvent(m, cellSelected(cellId, metadata))
    IN  IF m1.threw THEN m1 ELSE selectCell(m1, cellId)

\* Faulty variant: handleCellHoverEnter that announces the hover only
handleCellHoverEnter_emitOnly(m, cellId) ==
    emitEvent(m, cellHovered(cellId))

handleCellHoverEnter(m, cellId) ==
    LET m1 == emitEvent(m, cellHovered(cellId))
    IN  IF m1.threw THEN m1 ELSE setHoveredCell(m1, cellId)

\* Faulty variant: handleCellHoverExit that clears the hover before it emits
handleCellHoverExit_clearsFirst(m, cellId) ==
    LET m1 == setHoveredCell(m, NULL)
    IN  IF m1.threw THEN m1 ELSE emitEvent(m1, cellUnhovered(cellId))

handleCellHoverExit(m, cellId) ==
    LET m1 == emitEvent(m, cellUnhovered(cellId))
    IN  IF m1.threw THEN m1 ELSE setHoveredCell(m1, NULL)

\* context.previousCellId of a context object that may lack the field
previousCellId(context) ==
    IF "previousCellId" \in DOMAIN context
    THEN context.previousCellId ELSE UNDEFINED

handlePointerAction(m, actionType, cellId, context) ==
    IF ~Truthy(cellId)
    THEN IF actionType = "hover-exit"
         THEN handleCellHoverExit(m, previousCellId(context)) ELSE m
    ELSE CASE actionType = "select" -> handleCellSelect(m, cellId, context)
           [] actionType = "hover-enter" -> handleCellHoverEnter(m, cellId)
           [] actionType = "hover-exit" -> handleCellHoverExit(m, cellId)
           [] OTHER -> m

---------------------------------------------------------------------------
(* viewer/HexGrid.jsx getCellIdFromPoint, platform/web/input.js *)

\* the surface partition: points 2c-1 and 2c lie in cell c, point 0 in none
\* (an R3F intersection is identified with its point)
getCellIdFromPoint(point) == IF point = 0 THEN NULL ELSE (point + 1) \div 2

onPointerDown(m, point) ==
    LET cellId == getCellIdFromPoint(point)
    IN  IF Truthy(cellId)
        THEN handlePointerAction(m, "select", cellId,
                 [point |-> point, intersection |-> point])
        ELSE m

\* Faulty variants of the pointer handlers.

\* onPointerMove that enters the new cell before exiting the previous one
onPointerMove_enterBeforeExit(m, point) ==
    LET cellId == getCellIdFromPoint(point)
    IN  IF cellId = m.currentHoveredCellId THEN m
        ELSE
        LET m1 == IF Truthy(cellId)
                  THEN handlePointerAction(m, "hover-enter", cellId,
                           [point |-> point])
                  ELSE m
            m2 == IF m1.threw THEN m1
                  ELSE IF Truthy(m.currentHoveredCellId)
                       THEN handlePointerAction(m1, "hover-exit", NULL,
                                [previousCellId |-> m.currentHoveredCellId])
                       ELSE m1
        IN  IF m2.threw THEN m2
            ELSE [m2 EXCEPT !.currentHoveredCellId = cellId]

\* onPointerMove without the comparison with the memo
onPointerMove_noDedupe(m, point) ==
    LET cellId == getCellIdFromPoint(point)
        m1 == IF Truthy(m.currentHoveredCellId)
              THEN handlePointerAction(m, "hover-exit", NULL,
                       [previousCellId |-> m.currentHoveredCellId])
              ELSE m
        m2 == IF m1.threw THEN m1
              ELSE IF Truthy(cellId)
                   THEN handlePointerAction(m1, "hover-enter", cellId,
                            [point |-> point])
                   ELSE m1
    IN  IF m2.threw THEN m2
        ELSE [m2 EXCEPT !.currentHoveredCellId = cellId]

\* onPointerMove that reports the new cell as the one the pointer has left
onPointerMove_exitsNewCell(m, point) ==
    LET cellId == getCellIdFromPoint(point)
    IN  IF cellId = m.currentHoveredCellId THEN m
        ELSE
        LET m1 == IF Truthy(m.currentHoveredCellId)
                  THEN handlePointerAction(m, "hover-exit", NULL,
                           [previousCellId |-> cellId])
                  ELSE m
            m2 == IF m1.threw THEN m1
                  ELSE IF Truthy(cellId)
                       THEN handlePointerAction(m1, "hover-enter", cellId,
                                [point |-> point])
                       ELSE m1
        IN  IF m2.threw THEN m2
            ELSE [m2 EXCEPT !.currentHoveredCellId = cellId]

\* onPointerLeave that forgets to clear the memo
onPointerLeave_keepsMemo(m) ==
    IF Truthy(m.currentHoveredCellId)
    THEN handlePointerAction(m, "hover-exit", NULL,
             [previousCellId |-> m.currentHoveredCellId])
    ELSE m

onPointerMove(m, point) ==
    LET cellId == getCellIdFromPoint(point)
    IN  IF cellId = m.currentHoveredCellId THEN m
        ELSE
        LET m1 == IF Truthy(m.currentHoveredCellId)
                  THEN handlePointerAction(m, "hover-exit", NULL,
                           [previousCellId |-> m.currentHoveredCellId])
                  ELSE m
            m2 == IF m1.threw THEN m1
                  ELSE IF Truthy(cellId)
                       THEN handlePointerAction(m1, "hover-enter", cellId,
                                [point |-> point])
                       ELSE m1
        IN  IF m2.threw THEN m2
            ELSE [m2 EXCEPT !.currentHoveredCellId = cellId]

onPointerLeave(m) ==
    IF Truthy(m.currentHoveredCellId)
    THEN LET m1 == handlePointerAction(m, "hover-exit", NULL,
                       [previousCellId |-> m.currentHoveredCellId])
         IN  IF m1.threw THEN m1
             ELSE [m1 EXCEPT !.currentHoveredCellId = NULL]
    ELSE m

resetInputState(m) == [m EXCEPT !.currentHoveredCellId = NULL]

---------------------------------------------------------------------------
(* viewer/HexGrid.jsx: latLngToVector3, vector3ToLatLng *)

\* Angles are whole degrees on a grid of AngleStep degrees; the factors
\* Math.PI / 180 and 180 / Math.PI are absorbed by the trigonometric
\* operators, which take and give degrees.  A number is a fixed-point
\* mantissa in units of 1 / Scale; the three components of a vector share a
\* binary exponent, so that a component is (mantissa / Scale) * 2^exp.
\* A radius is a power of two, 2^exp: multiplying by it is exact.
Scale == 1000
AngleStep == 5

\* Math.sin of 0, 5, ..., 90 degrees
SinTable ==
    <<0, 87, 174, 259, 342, 423, 500, 574, 643, 707,
      766, 819, 866, 906, 940, 966, 985, 996, 1000>>

Sin(deg) ==
    LET d == deg % 360
    IN  IF d <= 90 THEN SinTable[d \div AngleStep + 1]
        ELSE IF d <= 180 THEN SinTable[(180 - d) \div AngleStep + 1]
        ELSE IF d <= 270 THEN 0 - SinTable[(d - 180) \div AngleStep + 1]
        ELSE 0 - SinTable[(360 - d) \div AngleStep + 1]

Cos(deg) == Sin(deg + 90)

\* The sign of the double Math.sin or Math.cos returns.  Where the table has
\* 0 the double is 0 or tiny and has a sign of its own: sin(0) = +0,
\* sin(pi) = 1.2e-16, cos(pi/2) = 6.1e-17, cos(3pi/2) = -1.8e-16.
NegativeSin(deg) == Sin(deg) < 0

NegativeCos(deg) == Cos(deg) < 0 \/ deg % 360 = 270

\* a / b rounded to the nearest mantissa, b > 0
RoundDiv(a, b) == (2 * a + b) \div (2 * b)

\* Math.sqrt of a mantissa product
Isqrt(n) == CHOOSE r \in 0..(2 * Scale) : r * r <= n /\ (r + 1) * (r + 1) > n

Abs(n) == IF n < 0 THEN 0 - n ELSE n

\* the angles Math.acos and Math.atan2 return, on the grid
AcosAngles == {AngleStep * k : k \in 0..(180 \div AngleStep)}

Atan2Angles == {AngleStep * k - 180 : k \in 1..(360 \div AngleStep)}

\* Math.acos(v) * (180 / Math.PI)
Acos(v) ==
    CHOOSE a \in AcosAngles :
        \A b \in AcosAngles :
            \/ Abs(Cos(a) - v) < Abs(Cos(b) - v)
            \/ (Abs(Cos(a) - v) = Abs(Cos(b) - v) /\ a <= b)

\* Math.atan2(z, x) * (180 / Math.PI), in (-180, 180]; negZ and negX are the
\* signs of the two doubles, which decide the result when z is a zero
Atan2(z, x, negZ, negX) ==
    IF z = 0 /\ x = 0
    THEN IF negX THEN (IF negZ THEN 0 - 180 ELSE 180) ELSE 0
    ELSE IF z = 0 /\ x < 0
    THEN IF negZ THEN 0 - 180 ELSE 180
    ELSE CHOOSE a \in Atan2Angles :
             \A b \in Atan2Angles \ {a} :
                 x * Cos(a) + z * Sin(a) > x * Cos(b) + z * Sin(b)

\* The exponents of the largest and of the least positive double.
DoubleMaxExp == 1023
DoubleMinExp == -1074

\* x * x + y * y + z * z of a vector of length 2^exp is about 2^(2 * exp):
\* Infinity above the largest double, 0 below the least one
SquaresOverflow(exp) == 2 * exp > DoubleMaxExp

SquaresVanish(exp) == 2 * exp < DoubleMinExp - 1

latLngToVector3(lat, lng, radiusExp) ==
    LET phi == 90 - lat
        theta == lng + 180
    IN  [x |-> 0 - RoundDiv(Sin(phi) * Cos(theta), Scale),
         y |-> Cos(phi),
         z |-> RoundDiv(Sin(phi) * Sin(theta), Scale),
         exp |-> radiusExp,
         negative |-> [x |-> NegativeSin(phi) = NegativeCos(theta),
                       y |-> NegativeCos(phi),
                       z |-> NegativeSin(phi) # NegativeSin(theta)]]

\* THREE.Vector3.normalize: divideScalar(length() || 1), where
\* divideScalar(s) is multiplyScalar(1 / s)
normalize(v) ==
    IF SquaresOverflow(v.exp)
    THEN \* length() is Infinity and 1 / Infinity is 0: zeros that keep signs
         [v EXCEPT !.x = 0, !.y = 0, !.z = 0, !.exp = 0]
    ELSE IF SquaresVanish(v.exp)
    THEN \* length() is 0 and 0 || 1 is 1: the vector stays as it is
         v
    ELSE LET length == Isqrt(v.x * v.x + v.y * v.y + v.z * v.z)
         IN  [v EXCEPT !.x = RoundDiv(v.x * Scale, length),
                       !.y = RoundDiv(v.y * Scale, length),
                       !.z = RoundDiv(v.z * Scale, length),
                       !.exp = 0]

\* the fixed-point value of a component of a normalized vector: the exponent
\* is 0, or that of a vector so short that normalize left it as it was
Fixed(mantissa, exp) == IF SquaresVanish(exp) THEN 0 ELSE mantissa

vector3ToLatLng(point) ==
    LET normalized == normalize(point)
        lat == 90 - Acos(Fixed(normalized.y, normalized.exp))
        lng == Atan2(normalized.z, 0 - normalized.x,
                     normalized.negative.z, ~normalized.negative.x) - 180
    IN  [lat |-> lat, lng |-> IF lng < 0 - 180 THEN lng + 360 ELSE lng]

---------------------------------------------------------------------------
(* viewer/HexGrid.jsx *)

MIN_GRID_RINGS == 8
MAX_GRID_RINGS == 140

\* Angles are whole millidegrees.
degToRad(deg) == deg * 1000

\* the null estimateRingStepRad returns when ring 1 holds no neighbour
NoRingStep == -1

\* what h3 may yield as the distance from a centre to its neighbour
StepEstimates ==
    {NoRingStep, degToRad(1) \div 2}
        \cup {degToRad(2 * k) : k \in 0..MaxRingSteps}

\* latLngToCell(0, 0, VISIBLE_GRID_RESOLUTION), the centre HexGrid starts with
InitialCenterCellId == 1

\* THREE.MathUtils.clamp
clamp(value, min, max) ==
    IF value < min THEN min ELSE IF value > max THEN max ELSE value

\* Math.PI / 2 + degToRad(8)
desiredRadius == degToRad(90) + degToRad(8)

\* Math.ceil(desiredRadius / Math.max(ringStep, 1e-6)).  1e-6 rad lies
\* strictly between 0 and one millidegree, so the maximum is ringStep unless
\* ringStep is 0; the quotient is then (pi/2 + 8 deg) / 1e-6 = 1710422.67.
ceilOfQuotient(ringStep) ==
    IF ringStep <= 0 THEN 1710423
    ELSE (desiredRadius + ringStep - 1) \div ringStep

\* Faulty variants of the ring count.

\* the ring count without the clamp
ringCount_unclamped(estimate) ==
    LET ringStep == IF estimate = NoRingStep THEN degToRad(1) ELSE estimate
    IN  ceilOfQuotient(ringStep)

\* the ring count rounded down instead of up
ringCount_roundsDown(estimate) ==
    LET ringStep == IF estimate = NoRingStep THEN degToRad(1) ELSE estimate
    IN  clamp(IF ringStep <= 0 THEN 1710422 ELSE desiredRadius \div ringStep,
              MIN_GRID_RINGS, MAX_GRID_RINGS)

\* the rings of the hexCells factory:
\*   ringStep = estimateRingStepRad(centerCell) ?? degToRad(1)
\*   rings = clamp(ceil(desiredRadius / max(ringStep, 1e-6)), MIN, MAX)
ringCount(estimate) ==
    LET ringStep == IF estimate = NoRingStep THEN degToRad(1) ELSE estimate
    IN  clamp(ceilOfQuotient(ringStep), MIN_GRID_RINGS, MAX_GRID_RINGS)

\* the hexCells factory: the disk of rings around the centre, kept as the
\* centre, the estimate h3 gave for it and the ring count
hexCellsFactory(m) ==
    LET centerCell == m.viewCenterCellId
        estimate == m.h3RingStep
    IN  [m EXCEPT !.hexCells = <<[centerCell |-> centerCell,
                                  estimate |-> estimate,
                                  rings |-> ringCount(estimate)]>>,
                  !.recomputes = @ + 1]

\* Faulty variant: a memo that also depends on apiState
useMemoHexCells_dependsOnApiState(m) ==
    IF \/ m.hexCells = <<>>
       \/ m.hexCells[1].centerCell # m.viewCenterCellId
       \/ m.rerender
    THEN hexCellsFactory(m) ELSE m

\* useMemo(factory, [viewCenterCellId])
useMemoHexCells(m) ==
    IF m.hexCells = <<>> \/ m.hexCells[1].centerCell # m.viewCenterCellId
    THEN hexCellsFactory(m) ELSE m

\* Faulty variant: the stored state takes precedence over the hover pointer
getCellColor_storedBeforeHover(cellId, cs, selected, hovered) ==
    IF cellId = selected THEN "#00ff88"
    ELSE IF cellId \in DOMAIN cs /\ cs[cellId].state \in {SELECTED, HOVERED, OWNED}
         THEN CASE cs[cellId].state = SELECTED -> "#00ff88"
                [] cs[cellId].state = HOVERED -> "#44aaff"
                [] OTHER -> "#ffaa00"
         ELSE IF cellId = hovered THEN "#44aaff" ELSE "#ffffff"

getCellColor(cellId, cs, selected, hovered) ==
    IF cellId = selected THEN "#00ff88"
    ELSE IF cellId = hovered THEN "#44aaff"
    ELSE IF cellId \in DOMAIN cs
         THEN CASE cs[cellId].state = SELECTED -> "#00ff88"
                [] cs[cellId].state = HOVERED -> "#44aaff"
                [] cs[cellId].state = OWNED -> "#ffaa00"
                [] OTHER -> "#ffffff"
         ELSE "#ffffff"

\* one render of HexGrid: the memo, then a HexCell for each visible cell
\* (the disk of at least MIN_GRID_RINGS rings covers the model's cells)
render(m) ==
    LET m1 == useMemoHexCells(m)
        a == m1.apiState[1]
    IN  [m1 EXCEPT !.colors = [c \in CellIds |->
                                  getCellColor(c, a.cells, a.selectedCellId,
                                               a.hoveredCellId)],
                   !.rerender = FALSE]

\* React re-renders a mounted component whose state was set
flushRender(m) == IF m.mounted /\ m.rerender THEN render(m) ELSE m

setViewCenterCellId(m, cellId) ==
    [m EXCEPT !.viewCenterCellId = cellId, !.rerender = TRUE]

\* the useFrame callback
useFrame(m, position) ==
    IF position <= 0 THEN m
    ELSE LET nextCenterCellId == position
         IN  IF nextCenterCellId # m.viewCenterCellId
             THEN setViewCenterCellId(m, nextCenterCellId) ELSE m

\* mounting: the useState initial values and the first render
mountHexGrid(m) ==
    render([m EXCEPT !.mounted = TRUE,
                     !.apiState = <<Deref(getState(m), m.heap)>>,
                     !.viewCenterCellId = InitialCenterCellId,
                     !.hexCells = <<>>])

\* unmounting: React drops the component's state (the effect's cleanup
\* unsubscribes setApiState and does nothing else)
unmountHexGrid(m) ==
    [m EXCEPT !.mounted = FALSE,
              !.apiState = <<>>,
              !.viewCenterCellId = NULL,
              !.hexCells = <<>>,
              !.colors = EmptyMap]

---------------------------------------------------------------------------
(* The state machine *)

\* the program state at the start of a call, with the call's logs empty
Machine ==
    [selectedCellId |-> selectedCellId,
     hoveredCellId |-> hoveredCellId,
     cells |-> cells,
     heap |-> heap,
     currentHoveredCellId |-> currentHoveredCellId,
     snap |-> snap,
     mounted |-> mounted,
     apiState |-> apiState,
     viewCenterCellId |-> viewCenterCellId,
     hexCells |-> hexCells,
     colors |-> colors,
     \* h3 yields the same estimate for the same centre
     h3RingStep |-> IF hexCells = <<>> THEN NoRingStep
                    ELSE hexCells[1].estimate,
     rerender |-> FALSE,
     recomputes |-> 0,
     notified |-> <<>>,
     events |-> <<>>,
     heard |-> <<>>,
     threw |-> FALSE]

Op(name, arg) == [name |-> name, arg |-> arg]

\* no callback is registered for any event type
NoneRegistered == [t \in EventTypes |-> <<>>]

NoOp == Op("none", NULL)

\* no coordinate conversion is under way
NoGeo == <<>>

\* the callbacks of the pointer mapper
PointerCallbacks == {"onPointerDown", "onPointerMove", "onPointerLeave"}

\* the hover events among the events of a call
HoverStream(evs) ==
    SelectSeq(evs, LAMBDA e : e.type \in {CELL_HOVERED, CELL_UNHOVERED})

\* the cell left hovered by a stream of hover events: that of its last
\* event when it is a CELL_HOVERED
OpenAfter(open, stream) ==
    IF stream = <<>> THEN open
    ELSE LET e == stream[Len(stream)]
         IN  IF e.type = CELL_HOVERED THEN e.payload.cellId ELSE NULL

\* the calls whose immediate succession the history keeps
StoreCalls == {"selectCell", "setHoveredCell"}

\* the program state after a call that returned (or threw) in machine m
Commit(m, op) ==
    \E c \in {Collect(flushRender(m))} :
        /\ mounted' = c.mounted
        /\ apiState' = c.apiState
        /\ viewCenterCellId' = c.viewCenterCellId
        /\ hexCells' = c.hexCells
        /\ colors' = c.colors
        /\ recomputes' = c.recomputes
        /\ selectedCellId' = c.selectedCellId
        /\ hoveredCellId' = c.hoveredCellId
        /\ cells' = c.cells
        /\ heap' = c.heap
        /\ snap' = c.snap
        /\ currentHoveredCellId' = c.currentHoveredCellId
        /\ notified' = c.notified
        /\ events' = c.events
        /\ heard' = c.heard
        /\ threw' = c.threw
        /\ held' = IF c.snap = <<>> \/ op.name = "getState" THEN 0 ELSE held + 1
        /\ lastOp' = op
        /\ prevOp' = IF lastOp.name \in StoreCalls THEN lastOp ELSE NoOp
        /\ openHover' = IF op.name \in PointerCallbacks
                        THEN OpenAfter(openHover, HoverStream(c.events))
                        ELSE openHover
        /\ geo' = geo

Init ==
    /\ selectedCellId = NULL
    /\ hoveredCellId = NULL
    /\ cells = EmptyMap
    /\ heap = EmptyMap
    /\ subscribers = <<>>
    /\ eventListeners = EmptyMap
    /\ currentHoveredCellId = NULL
    /\ throwers = {}
    /\ registered = NoneRegistered
    /\ mounted = FALSE
    /\ apiState = <<>>
    /\ viewCenterCellId = NULL
    /\ hexCells = <<>>
    /\ colors = EmptyMap
    /\ recomputes = 0
    /\ snap = <<>>
    /\ held = 0
    /\ lastOp = NoOp
    /\ prevOp = NoOp
    /\ notified = <<>>
    /\ events = <<>>
    /\ heard = <<>>
    /\ threw = FALSE
    /\ geo = NoGeo
    /\ openHover = NULL

SelectCell ==
    \E c \in CellIds :
        /\ held < MaxHeldCalls
        /\ Commit(selectCell(Machine, c), Op("selectCell", c))
        /\ UNCHANGED <<subscribers, eventListeners, throwers, registered>>

ClearSelection ==
    /\ held < MaxHeldCalls
    /\ Commit(clearSelection(Machine), Op("clearSelection", NULL))
    /\ UNCHANGED <<subscribers, eventListeners, throwers, registered>>

SetHoveredCell ==
    \E c \in CellIds \cup {NULL} :
        /\ held < MaxHeldCalls
        /\ Commit(setHoveredCell(Machine, c), Op("setHoveredCell", c))
        /\ UNCHANGED <<subscribers, eventListeners, throwers, registered>>

Subscribe ==
    \E l \in Listeners :
        /\ subscribers' = SetAdd(subscribers, l)
        /\ Commit(Machine, Op("subscribe", l))
        /\ UNCHANGED <<eventListeners, throwers, registered>>

Unsubscribe ==
    \E l \in Listeners :
        /\ SeqHas(subscribers, l)
        /\ subscribers' = SeqRemove(subscribers, l)
        /\ Commit(Machine, Op("unsubscribe", l))
        /\ UNCHANGED <<eventListeners, throwers, registered>>

OnPointerDown ==
    \E p \in Points :
        /\ mounted
        /\ Commit(onPointerDown(Machine, p), Op("onPointerDown", p))
        /\ UNCHANGED <<subscribers, eventListeners, throwers, registered>>

OnPointerMove ==
    \E p \in Points :
        /\ mounted
        /\ Commit(onPointerMove(Machine, p), Op("onPointerMove", p))
        /\ UNCHANGED <<subscribers, eventListeners, throwers, registered>>

OnPointerLeave ==
    /\ mounted
    /\ Commit(onPointerLeave(Machine), Op("onPointerLeave", NULL))
    /\ UNCHANGED <<subscribers, eventListeners, throwers, registered>>

\* A caller keeps the object getState() returned (one snapshot is followed,
\* for MaxHeldCalls calls) ...
GetState ==
    /\ snap = <<>>
    /\ Commit([Machine EXCEPT !.snap = <<getState(Machine)>>], Op("getState", NULL))
    /\ UNCHANGED <<subscribers, eventListeners, throwers, registered>>

\* ... writes a field of a record reached through it:
\* snapshot.cells.get(c).state = s
SnapshotSetRecordState ==
    \E c \in CellIds, s \in {DEFAULT, OWNED} :
        /\ snap # <<>>
        /\ held < MaxHeldCalls
        /\ c \in DOMAIN snap[1].cells
        /\ Commit([Machine EXCEPT !.heap[snap[1].cells[c]].state = s],
                  Op("snapshotSetRecordState", c))
        /\ UNCHANGED <<subscribers, eventListeners, throwers, registered>>

\* ... deletes an entry of its Map: snapshot.cells.delete(c)
SnapshotDelete ==
    \E c \in CellIds :
        /\ snap # <<>>
        /\ held < MaxHeldCalls
        /\ c \in DOMAIN snap[1].cells
        /\ Commit([Machine EXCEPT !.snap[1].cells = MapDelete(@, c)],
                  Op("snapshotDelete", c))
        /\ UNCHANGED <<subscribers, eventListeners, throwers, registered>>

\* ... or adds an entry with a record of its own: snapshot.cells.set(c, {...})
SnapshotAdd ==
    \E c \in CellIds :
        /\ snap # <<>>
        /\ held < MaxHeldCalls
        /\ c \notin DOMAIN snap[1].cells
        /\ LET r == NewRef(heap)
           IN  Commit([Machine EXCEPT !.snap[1].cells = MapSet(@, c, r),
                                     !.heap = MapSet(@, r, createCell(c))],
                      Op("snapshotAdd", c))
        /\ UNCHANGED <<subscribers, eventListeners, throwers, registered>>

\* how many registrations are in force
NumRegistered == Len(registered[CELL_SELECTED]) + Len(registered[CELL_HOVERED])
                     + Len(registered[CELL_UNHOVERED])

\* Other code registers a callback for a domain event type ...
AddEventListener ==
    \E t \in EventTypes, l \in Listeners :
        /\ NumRegistered < MaxRegistered \/ SeqHas(registered[t], l)
        /\ eventListeners' = addEventListener(eventListeners, t, l)
        /\ registered' = [registered EXCEPT ![t] =
                              IF SeqHas(@, l) THEN @ ELSE Append(@, l)]
        /\ Commit(Machine, Op("addEventListener", l))
        /\ UNCHANGED <<subscribers, throwers>>

\* ... and calls the unsubscribe function a registration returned
RemoveEventListener ==
    \E t \in EventTypes, l \in Listeners :
        /\ SeqHas(registered[t], l)
        /\ eventListeners' = removeEventListener(eventListeners, t, l)
        /\ registered' = [registered EXCEPT ![t] = SeqRemove(@, l)]
        /\ Commit(Machine, Op("removeEventListener", l))
        /\ UNCHANGED <<subscribers, throwers>>

\* the context objects a platform layer passes to handlePointerAction
Contexts ==
    {EmptyMap} \cup {[previousCellId |-> c] : c \in CellIds}
        \cup {[cellId |-> c] : c \in CellIds}

\* The contexts that make a difference to handlePointerAction(t, c, context):
\* a select on a cell spreads the context into the event's payload (a
\* context with a cellId of its own is taken, or an empty one), a hover-exit
\* without a cell reads context.previousCellId, and every other action
\* ignores the context.
ContextsFor(t, c) ==
    IF t = "select" /\ c # NULL
    THEN {x \in Contexts : "previousCellId" \notin DOMAIN x}
    ELSE IF t = "hover-exit" /\ c = NULL
    THEN {x \in Contexts : "cellId" \notin DOMAIN x}
    ELSE {EmptyMap}

ActionTypes == {"select", "hover-enter", "hover-exit"}

\* Other code calls the exported handlers themselves
HandleCellSelect ==
    \E c \in CellIds :
        /\ Commit(handleCellSelect(Machine, c, EmptyMap), Op("handleCellSelect", c))
        /\ UNCHANGED <<subscribers, eventListeners, throwers, registered>>

HandleCellHoverEnter ==
    \E c \in CellIds :
        /\ Commit(handleCellHoverEnter(Machine, c), Op("handleCellHoverEnter", c))
        /\ UNCHANGED <<subscribers, eventListeners, throwers, registered>>

HandleCellHoverExit ==
    \E c \in CellIds :
        /\ Commit(handleCellHoverExit(Machine, c), Op("handleCellHoverExit", c))
        /\ UNCHANGED <<subscribers, eventListeners, throwers, registered>>

\* A platform layer reports a pointer action
HandlePointerAction ==
    \E t \in ActionTypes, c \in CellIds \cup {NULL} :
    \E context \in ContextsFor(t, c) :
        /\ Commit(handlePointerAction(Machine, t, c, context), Op(t, c))
        /\ UNCHANGED <<subscribers, eventListeners, throwers, registered>>

\* R3F calls the useFrame callback with the camera somewhere; h3 yields an
\* estimate for a centre other than the memoized one.
Frame ==
    \E p \in CameraPositions :
    \E e \in IF p \in {0, viewCenterCellId} THEN {Machine.h3RingStep}
              ELSE StepEstimates :
        /\ mounted
        /\ Commit(useFrame([Machine EXCEPT !.h3RingStep = e], p), Op("frame", p))
        /\ UNCHANGED <<subscribers, eventListeners, throwers, registered>>

\* React renders HexGrid again (its parent rendered)
Render ==
    /\ mounted
    /\ Commit(render(Machine), Op("render", NULL))
    /\ UNCHANGED <<subscribers, eventListeners, throwers, registered>>

\* GlobeScene mounts HexGrid; the effect subscribes setApiState
Mount ==
    \E e \in StepEstimates :
        /\ ~mounted
        /\ subscribers' = SetAdd(subscribers, SetApiState)
        /\ Commit(mountHexGrid([Machine EXCEPT !.h3RingStep = e]),
                  Op("mount", NULL))
        /\ UNCHANGED <<eventListeners, throwers, registered>>

\* HexGrid unmounts; the effect's cleanup unsubscribes setApiState
Unmount ==
    /\ mounted
    /\ subscribers' = SeqRemove(subscribers, SetApiState)
    /\ Commit(unmountHexGrid(Machine), Op("unmount", NULL))
    /\ UNCHANGED <<eventListeners, throwers, registered>>

\* the store and its callers
Next ==
    \/ SelectCell
    \/ ClearSelection
    \/ SetHoveredCell
    \/ Subscribe
    \/ Unsubscribe

Spec == Init /\ [][Next]_vars

\* the empty store as a reader sees it
EmptyState == [selectedCellId |-> NULL, hoveredCellId |-> NULL, cells |-> EmptyMap]

\* HexGrid mounted over the empty store, h3 having given the estimate
MountedWith(estimate) ==
    /\ mounted = TRUE
    /\ apiState = <<EmptyState>>
    /\ viewCenterCellId = InitialCenterCellId
    /\ hexCells = <<[centerCell |-> InitialCenterCellId,
                     estimate |-> estimate,
                     rings |-> ringCount(estimate)]>>
    /\ colors = [c \in CellIds |-> "#ffffff"]
    /\ recomputes = 0

\* The pointer handlers exist while HexGrid is mounted, and HexGrid has then
\* subscribed its setApiState (listener 1) to the store.  The grid geometry
\* does not matter to the pointer mapper: one estimate (half a degree) is
\* taken.
MountedInit ==
    /\ registered = NoneRegistered
    /\ MountedWith(degToRad(1) \div 2)
    /\ selectedCellId = NULL
    /\ hoveredCellId = NULL
    /\ cells = EmptyMap
    /\ heap = EmptyMap
    /\ subscribers = <<SetApiState>>
    /\ eventListeners = EmptyMap
    /\ currentHoveredCellId = NULL
    /\ throwers = {}
    /\ snap = <<>>
    /\ held = 0
    /\ lastOp = NoOp
    /\ prevOp = NoOp
    /\ notified = <<>>
    /\ events = <<>>
    /\ heard = <<>>
    /\ threw = FALSE
    /\ geo = NoGeo
    /\ openHover = NULL

\* the pointer mapper on top of the store, which other callers use too
PointerNext ==
    \/ SelectCell
    \/ ClearSelection
    \/ SetHoveredCell
    \/ OnPointerDown
    \/ OnPointerMove
    \/ OnPointerLeave

SpecPointer == MountedInit /\ [][PointerNext]_vars

\* the store with a subscriber that throws
ThrowingInit ==
    /\ selectedCellId = NULL
    /\ hoveredCellId = NULL
    /\ cells = EmptyMap
    /\ heap = EmptyMap
    /\ subscribers = <<>>
    /\ eventListeners = EmptyMap
    /\ currentHoveredCellId = NULL
    /\ \E l \in Listeners : throwers = {l}
    /\ registered = NoneRegistered
    /\ mounted = FALSE
    /\ apiState = <<>>
    /\ viewCenterCellId = NULL
    /\ hexCells = <<>>
    /\ colors = EmptyMap
    /\ recomputes = 0
    /\ snap = <<>>
    /\ held = 0
    /\ lastOp = NoOp
    /\ prevOp = NoOp
    /\ notified = <<>>
    /\ events = <<>>
    /\ heard = <<>>
    /\ threw = FALSE
    /\ geo = NoGeo
    /\ openHover = NULL

SpecThrowing == ThrowingInit /\ [][Next]_vars

\* the event bus: callbacks come and go while the handlers are called
BusNext ==
    \/ AddEventListener
    \/ RemoveEventListener
    \/ HandleCellSelect
    \/ HandleCellHoverExit

SpecBus == Init /\ [][BusNext]_vars

\* every way to register some of the callbacks, one after the other
RegistrationOrders ==
    {q \in UNION {[1..n -> Listeners] : n \in 1..NumListeners} :
        \A i, j \in DOMAIN q : i # j => q[i] # q[j]}

\* The event bus with callbacks that throw: some callbacks have been
\* registered for one event type, and some of all callbacks throw when
\* invoked.
ThrowingBusInit ==
    /\ selectedCellId = NULL
    /\ hoveredCellId = NULL
    /\ cells = EmptyMap
    /\ heap = EmptyMap
    /\ subscribers = <<>>
    /\ \E t \in EventTypes, q \in RegistrationOrders :
          /\ eventListeners = MapSet(EmptyMap, t, q)
          /\ registered = [NoneRegistered EXCEPT ![t] = q]
    /\ currentHoveredCellId = NULL
    /\ throwers \in SUBSET Listeners \ {{}}
    /\ mounted = FALSE
    /\ apiState = <<>>
    /\ viewCenterCellId = NULL
    /\ hexCells = <<>>
    /\ colors = EmptyMap
    /\ recomputes = 0
    /\ snap = <<>>
    /\ held = 0
    /\ lastOp = NoOp
    /\ prevOp = NoOp
    /\ notified = <<>>
    /\ events = <<>>
    /\ heard = <<>>
    /\ threw = FALSE
    /\ geo = NoGeo
    /\ openHover = NULL

ThrowingBusNext ==
    \/ HandleCellSelect
    \/ HandleCellHoverEnter
    \/ HandleCellHoverExit

SpecThrowingBus == ThrowingBusInit /\ [][ThrowingBusNext]_vars

\* the callbacks of other code, HexGrid's setApiState being listener 1
OtherCallbacks == SortedSeq(Listeners \ {SetApiState})

\* the registries in which other code has registered its callbacks for one
\* event type, and the empty one
Registries ==
    {EmptyMap} \cup {MapSet(EmptyMap, t, OtherCallbacks) : t \in EventTypes}

\* The pointer mapper as the only caller of the handlers and of the store:
\* HexGrid is mounted, other code has registered callbacks for an event type
\* (or none), and one of its callbacks may be one that throws.
PointerBusInit ==
    /\ MountedWith(degToRad(1) \div 2)
    /\ selectedCellId = NULL
    /\ hoveredCellId = NULL
    /\ cells = EmptyMap
    /\ heap = EmptyMap
    /\ subscribers = <<SetApiState>>
    /\ eventListeners \in Registries
    /\ registered = [t \in EventTypes |->
                        IF t \in DOMAIN eventListeners
                        THEN eventListeners[t] ELSE <<>>]
    /\ currentHoveredCellId = NULL
    /\ throwers \in {{}} \cup {{l} : l \in Listeners \ {SetApiState}}
    /\ snap = <<>>
    /\ held = 0
    /\ lastOp = NoOp
    /\ prevOp = NoOp
    /\ notified = <<>>
    /\ events = <<>>
    /\ heard = <<>>
    /\ threw = FALSE
    /\ geo = NoGeo
    /\ openHover = NULL

PointerOnlyNext ==
    \/ OnPointerDown
    \/ OnPointerMove
    \/ OnPointerLeave

SpecPointerOnly == PointerBusInit /\ [][PointerOnlyNext]_vars

\* a platform layer reports pointer actions of every kind, with HexGrid
\* mounted and callbacks registered
ActionsNext == HandlePointerAction

SpecActions == PointerBusInit /\ [][ActionsNext]_vars

\* the visible region: the camera moves while the pointer selects cells and
\* another caller clears the selection
ViewInit ==
    /\ selectedCellId = NULL
    /\ hoveredCellId = NULL
    /\ cells = EmptyMap
    /\ heap = EmptyMap
    /\ subscribers = <<SetApiState>>
    /\ eventListeners = EmptyMap
    /\ currentHoveredCellId = NULL
    /\ throwers = {}
    /\ registered = NoneRegistered
    /\ \E e \in StepEstimates : MountedWith(e)
    /\ snap = <<>>
    /\ held = 0
    /\ lastOp = NoOp
    /\ prevOp = NoOp
    /\ notified = <<>>
    /\ events = <<>>
    /\ heard = <<>>
    /\ threw = FALSE
    /\ geo = NoGeo
    /\ openHover = NULL

ViewNext ==
    \/ Frame
    \/ Render
    \/ ClearSelection
    \/ OnPointerDown

SpecView == ViewInit /\ [][ViewNext]_vars

\* The colours: getCellColor takes any Map and any two pointers, so HexGrid
\* is about to render with its apiState drawn from all of them.
CellMaps ==
    {[c \in DOMAIN f |-> [createCell(c) EXCEPT !.state = f[c]]] :
        f \in UNION {[D -> CellState] : D \in SUBSET CellIds}}

ColorInit ==
    /\ selectedCellId = NULL
    /\ hoveredCellId = NULL
    /\ cells = EmptyMap
    /\ heap = EmptyMap
    /\ subscribers = <<SetApiState>>
    /\ eventListeners = EmptyMap
    /\ currentHoveredCellId = NULL
    /\ throwers = {}
    /\ registered = NoneRegistered
    /\ mounted = TRUE
    /\ \E s \in CellIds \cup {NULL}, h \in CellIds \cup {NULL}, cs \in CellMaps :
           apiState = <<[selectedCellId |-> s, hoveredCellId |-> h, cells |-> cs]>>
    /\ viewCenterCellId = InitialCenterCellId
    /\ hexCells = <<[centerCell |-> InitialCenterCellId,
                     estimate |-> degToRad(1) \div 2,
                     rings |-> ringCount(degToRad(1) \div 2)]>>
    /\ colors = EmptyMap
    /\ recomputes = 0
    /\ snap = <<>>
    /\ held = 0
    /\ lastOp = NoOp
    /\ prevOp = NoOp
    /\ notified = <<>>
    /\ events = <<>>
    /\ heard = <<>>
    /\ threw = FALSE
    /\ geo = NoGeo
    /\ openHover = NULL

ColorNext == Render

SpecColor == ColorInit /\ [][ColorNext]_vars

\* the scene torn down and set up again while the pointer moves
TeardownNext ==
    \/ Mount
    \/ Unmount
    \/ OnPointerMove
    \/ OnPointerLeave

SpecTeardown == MountedInit /\ [][TeardownNext]_vars

\* the store with a caller that holds and edits a snapshot
SnapshotNext ==
    \/ SelectCell
    \/ ClearSelection
    \/ SetHoveredCell
    \/ GetState
    \/ SnapshotSetRecordState
    \/ SnapshotDelete
    \/ SnapshotAdd

SpecSnapshot == Init /\ [][SnapshotNext]_vars

\* The coordinate conversions: latitudes in (-90, 90) and longitudes in
\* [-180, 180) on the angle grid, and radii 2^exp from the very small to the
\* very large (none so close to the ends of the range of doubles that a
\* square is subnormal)
Latitudes == {AngleStep * k - 90 : k \in 1..(180 \div AngleStep - 1)}

Longitudes == {AngleStep * k - 180 : k \in 0..(360 \div AngleStep - 1)}

RadiusExponents == {-600, -1, 0, 7, 600}

GeoInit ==
    /\ selectedCellId = NULL
    /\ hoveredCellId = NULL
    /\ cells = EmptyMap
    /\ heap = EmptyMap
    /\ subscribers = <<>>
    /\ eventListeners = EmptyMap
    /\ currentHoveredCellId = NULL
    /\ throwers = {}
    /\ registered = NoneRegistered
    /\ mounted = FALSE
    /\ apiState = <<>>
    /\ viewCenterCellId = NULL
    /\ hexCells = <<>>
    /\ colors = EmptyMap
    /\ recomputes = 0
    /\ snap = <<>>
    /\ held = 0
    /\ lastOp = NoOp
    /\ prevOp = NoOp
    /\ notified = <<>>
    /\ events = <<>>
    /\ heard = <<>>
    /\ threw = FALSE
    /\ openHover = NULL
    /\ \E lat \in Latitudes, lng \in Longitudes, exp \in RadiusExponents :
           geo = [lat |-> lat, lng |-> lng, exp |-> exp,
                  point |-> <<>>, latLng |-> <<>>]

\* the coordinates are taken to a point of the sphere ...
LatLngToVector3 ==
    /\ geo.point = <<>>
    /\ geo' = [geo EXCEPT !.point = <<latLngToVector3(geo.lat, geo.lng, geo.exp)>>]
    /\ UNCHANGED <<selectedCellId, hoveredCellId, cells, heap, subscribers,
                   eventListeners, currentHoveredCellId, throwers, registered,
                   mounted, apiState, viewCenterCellId, hexCells, colors,
                   recomputes, snap, held, lastOp, prevOp, notified, events,
                   heard, threw, openHover>>

\* ... and the point back to coordinates
Vector3ToLatLng ==
    /\ geo.point # <<>>
    /\ geo.latLng = <<>>
    /\ geo' = [geo EXCEPT !.latLng = <<vector3ToLatLng(geo.point[1])>>]
    /\ UNCHANGED <<selectedCellId, hoveredCellId, cells, heap, subscribers,
                   eventListeners, currentHoveredCellId, throwers, registered,
                   mounted, apiState, viewCenterCellId, hexCells, colors,
                   recomputes, snap, held, lastOp, prevOp, notified, events,
                   heard, threw, openHover>>

GeoNext ==
    \/ LatLngToVector3
    \/ Vector3ToLatLng

SpecGeo == GeoInit /\ [][GeoNext]_vars

---------------------------------------------------------------------------
(* Properties of the cell state store *)

\* the record stored under cell id c, before and after a step
Rec(c) == heap[cells[c]]
RecAfter(c) == heap'[cells'[c]]

\* what getState() shows now, and after a step
StoreView ==
    [selectedCellId |-> selectedCellId, hoveredCellId |-> hoveredCellId,
     cells |-> [c \in DOMAIN cells |-> Rec(c)]]
StoreViewAfter ==
    [selectedCellId |-> selectedCellId', hoveredCellId |-> hoveredCellId',
     cells |-> [c \in DOMAIN cells' |-> RecAfter(c)]]

\* how many times listener l appears in an invocation log
Calls(log, l) == Cardinality({i \in 1..Len(log) : log[i].listener = l})

\* C1: a cell record has stored state SELECTED exactly when its id is
\* selectedCellId, and the selected cell always has a record; so hovering
\* or un-hovering the selected cell never takes it away from SELECTED.
C1_SelectedIffPointer ==
    /\ \A c \in DOMAIN cells : (Rec(c).state = SELECTED) <=> (c = selectedCellId)
    /\ selectedCellId # NULL => selectedCellId \in DOMAIN cells

\* the hover has just been moved onto the selected cell, which stays SELECTED
C1_Witness ==
    /\ lastOp.name = "setHoveredCell"
    /\ lastOp.arg # NULL
    /\ prevOp = Op("selectCell", lastOp.arg)
    /\ hoveredCellId = selectedCellId
    /\ selectedCellId = lastOp.arg
    /\ Rec(selectedCellId).state = SELECTED

\* C2: after selectCell(A) immediately followed by selectCell(B), A # B,
\* A's record is DEFAULT, B's record is SELECTED and selectedCellId is B.
C2_SelectAThenB ==
    (/\ prevOp.name = "selectCell"
     /\ lastOp.name = "selectCell"
     /\ prevOp.arg # lastOp.arg)
    => /\ prevOp.arg \in DOMAIN cells
       /\ Rec(prevOp.arg).state = DEFAULT
       /\ lastOp.arg \in DOMAIN cells
       /\ Rec(lastOp.arg).state = SELECTED
       /\ selectedCellId = lastOp.arg

\* A was selected while hovered, then B was selected
C2_Witness ==
    /\ prevOp.name = "selectCell"
    /\ lastOp.name = "selectCell"
    /\ prevOp.arg # lastOp.arg
    /\ hoveredCellId = prevOp.arg
    /\ selectedCellId = lastOp.arg

\* C3: setHoveredCell(x) with hoveredCellId = x already notifies nobody and
\* changes nothing in the store; a second consecutive setHoveredCell(x)
\* after one that changed the hover leaves every subscriber notified once
\* over the two calls.
C3_HoverIdempotent ==
    [][/\ (lastOp'.name = "setHoveredCell" /\ lastOp'.arg = hoveredCellId)
          => /\ notified' = <<>>
             /\ UNCHANGED <<selectedCellId, hoveredCellId, cells, heap>>
       /\ (/\ lastOp.name = "setHoveredCell"
           /\ lastOp' = lastOp
           /\ notified # <<>>)
          => \A i \in 1..Len(subscribers) :
                Calls(notified, subscribers[i])
                    + Calls(notified', subscribers[i]) = 1
      ]_vars

\* setHoveredCell(x) has been called twice in a row, with subscribers
C3_Witness ==
    /\ lastOp.name = "setHoveredCell"
    /\ prevOp = lastOp
    /\ hoveredCellId = lastOp.arg
    /\ subscribers # <<>>
    /\ notified = <<>>

\* the record setHoveredCell(c) must leave under a key k that has one
C4_Expected(k, c) ==
    IF k = c
    THEN LET base == IF k \in DOMAIN cells THEN Rec(k) ELSE createCell(c)
         IN  IF base.state = SELECTED THEN base
             ELSE [base EXCEPT !.state = HOVERED]
    ELSE IF k = hoveredCellId /\ Rec(k).state = HOVERED
         THEN [Rec(k) EXCEPT !.state = DEFAULT]
         ELSE Rec(k)

\* C4: setHoveredCell(c) with c # hoveredCellId sets hoveredCellId to c,
\* demotes the previous hover's record to DEFAULT only when it is HOVERED,
\* creates c's record if absent, makes it HOVERED unless it is SELECTED,
\* and leaves selectedCellId and all other records as they were.
C4_HoverChange ==
    [][(lastOp'.name = "setHoveredCell" /\ lastOp'.arg # hoveredCellId)
       => /\ hoveredCellId' = lastOp'.arg
          /\ selectedCellId' = selectedCellId
          /\ DOMAIN cells' = DOMAIN cells \cup (CellIds \cap {lastOp'.arg})
          /\ \A k \in DOMAIN cells' :
                RecAfter(k) = C4_Expected(k, lastOp'.arg)
      ]_vars

\* the hover moved from one cell to another: the first is DEFAULT again
C4_Witness ==
    /\ prevOp.name = "setHoveredCell"
    /\ lastOp.name = "setHoveredCell"
    /\ prevOp.arg # NULL
    /\ lastOp.arg # NULL
    /\ prevOp.arg # lastOp.arg
    /\ hoveredCellId = lastOp.arg
    /\ prevOp.arg # selectedCellId
    /\ Rec(prevOp.arg).state = DEFAULT
    /\ Rec(lastOp.arg).state = HOVERED

\* C5: clearSelection leaves selectedCellId null and the previously
\* selected cell's record DEFAULT, keeps hoveredCellId and every other
\* record, and notifies each subscriber once, selection or not.
C5_ClearSelection ==
    [][lastOp'.name = "clearSelection"
       => /\ selectedCellId' = NULL
          /\ hoveredCellId' = hoveredCellId
          /\ DOMAIN cells' = DOMAIN cells
          /\ \A k \in DOMAIN cells :
                RecAfter(k) = IF k = selectedCellId
                              THEN [Rec(k) EXCEPT !.state = DEFAULT]
                              ELSE Rec(k)
          /\ Len(notified') = Len(subscribers)
          /\ \A i \in 1..Len(subscribers) :
                Calls(notified', subscribers[i]) = 1
      ]_vars

\* a selection made while another cell was hovered has been cleared
C5_Witness ==
    /\ lastOp.name = "clearSelection"
    /\ prevOp.name = "selectCell"
    /\ selectedCellId = NULL
    /\ Rec(prevOp.arg).state = DEFAULT
    /\ hoveredCellId # NULL
    /\ hoveredCellId # prevOp.arg
    /\ Len(notified) = 2

\* C6: every selectCell, every clearSelection and every setHoveredCell that
\* changes hoveredCellId invokes each subscribed listener exactly once, with
\* a snapshot equal to the store state after the mutation, and invokes no
\* listener that is not (or no longer) subscribed; subscribe and
\* unsubscribe invoke nobody.
C6_NotifiedOncePerMutation ==
    [][/\ (\/ lastOp'.name \in {"selectCell", "clearSelection"}
           \/ (lastOp'.name = "setHoveredCell" /\ lastOp'.arg # hoveredCellId))
          => /\ \A l \in Listeners :
                   Calls(notified', l) = IF SeqHas(subscribers, l) THEN 1 ELSE 0
             /\ \A i \in 1..Len(notified') :
                   notified'[i].snapshot = StoreViewAfter
       /\ lastOp'.name \in {"subscribe", "unsubscribe"} => notified' = <<>>
      ]_vars

\* the selected cell has been selected again, with one listener subscribed
C6_Witness ==
    /\ lastOp.name = "selectCell"
    /\ prevOp = lastOp
    /\ Len(subscribers) = 1
    /\ Len(notified) = 1
    /\ notified[1].listener = subscribers[1]
    /\ notified[1].snapshot = StoreView

---------------------------------------------------------------------------
(* Properties of snapshots *)

\* what the holder of the snapshot reads from it, now and after a step
SnapshotView == Deref(snap[1], heap)
SnapshotViewAfter == Deref(snap'[1], heap')

CallerEdits == {"snapshotSetRecordState", "snapshotDelete", "snapshotAdd"}

StoreMutations == {"selectCell", "clearSelection", "setHoveredCell"}

\* C7: snapshots do not alias internal state: nothing a caller does to a
\* snapshot (adding or deleting entries of its cells mapping, writing a
\* field of a record reached through it) changes what getState and getCell
\* return afterwards, and no store mutation changes a snapshot taken earlier.
C7_NoAliasing ==
    [][/\ lastOp'.name \in CallerEdits => StoreViewAfter = StoreView
       /\ (lastOp'.name \in StoreMutations /\ snap # <<>>)
          => SnapshotViewAfter = SnapshotView
      ]_vars

---------------------------------------------------------------------------
(* Properties of the pointer mapper *)

StoreUnchanged == UNCHANGED <<selectedCellId, hoveredCellId, cells, heap>>

\* C8: an onPointerMove that resolves a cell id different from
\* currentHoveredCellId emits CELL_UNHOVERED for the previous id if there
\* was one, then CELL_HOVERED for the new id if there is one, and nothing
\* else; afterwards currentHoveredCellId and the store's hoveredCellId both
\* equal the new id.
C8_MoveToOtherCell ==
    [][(/\ lastOp'.name = "onPointerMove"
        /\ getCellIdFromPoint(lastOp'.arg) # currentHoveredCellId)
       => LET new == getCellIdFromPoint(lastOp'.arg)
              exit == IF currentHoveredCellId # NULL
                      THEN <<cellUnhovered(currentHoveredCellId)>> ELSE <<>>
              enter == IF new # NULL THEN <<cellHovered(new)>> ELSE <<>>
          IN  /\ events' = exit \o enter
              /\ currentHoveredCellId' = new
              /\ hoveredCellId' = new
      ]_vars

\* the pointer has moved from one cell into another
C8_Witness ==
    /\ lastOp.name = "onPointerMove"
    /\ Len(events) = 2
    /\ events[1].type = CELL_UNHOVERED
    /\ events[2].type = CELL_HOVERED
    /\ events[1].payload.cellId # events[2].payload.cellId
    /\ currentHoveredCellId = events[2].payload.cellId
    /\ hoveredCellId = currentHoveredCellId

\* C9: an onPointerMove that resolves the cell id currentHoveredCellId
\* already holds emits no event, notifies no store subscriber and changes
\* neither the memo nor the store.
C9_MoveWithinCell ==
    [][(/\ lastOp'.name = "onPointerMove"
        /\ getCellIdFromPoint(lastOp'.arg) = currentHoveredCellId)
       => /\ events' = <<>>
          /\ heard' = <<>>
          /\ notified' = <<>>
          /\ currentHoveredCellId' = currentHoveredCellId
          /\ StoreUnchanged
      ]_vars

\* the pointer has moved inside the hovered cell, with subscribers present
C9_Witness ==
    /\ lastOp.name = "onPointerMove"
    /\ currentHoveredCellId # NULL
    /\ getCellIdFromPoint(lastOp.arg) = currentHoveredCellId
    /\ hoveredCellId = currentHoveredCellId
    /\ subscribers # <<>>
    /\ events = <<>>
    /\ notified = <<>>

\* C10: onPointerLeave while a cell is hovered emits exactly one
\* CELL_UNHOVERED event, carrying that cell's id, and leaves the store's
\* hoveredCellId and the memo null; with no hover it emits nothing and
\* changes nothing.
C10_Leave ==
    [][lastOp'.name = "onPointerLeave"
       => IF currentHoveredCellId # NULL
          THEN /\ events' = <<cellUnhovered(currentHoveredCellId)>>
               /\ hoveredCellId' = NULL
               /\ currentHoveredCellId' = NULL
          ELSE /\ events' = <<>>
               /\ notified' = <<>>
               /\ currentHoveredCellId' = currentHoveredCellId
               /\ StoreUnchanged
      ]_vars

\* the pointer has left the surface from a hovered cell
C10_Witness ==
    /\ lastOp.name = "onPointerLeave"
    /\ Len(events) = 1
    /\ events[1].type = CELL_UNHOVERED
    /\ events[1].payload.cellId \in DOMAIN cells
    /\ hoveredCellId = NULL
    /\ currentHoveredCellId = NULL
    /\ Len(notified) = 1

\* C11: an onPointerDown whose point resolves to a cell emits exactly one
\* CELL_SELECTED event whose payload.cellId is that cell and leaves the
\* store's selectedCellId equal to it; when the point resolves to no cell
\* no event is emitted, no subscriber is notified and nothing changes.
C11_PointerDown ==
    [][lastOp'.name = "onPointerDown"
       => LET C == getCellIdFromPoint(lastOp'.arg)
          IN  IF C # NULL
              THEN /\ Len(events') = 1
                   /\ events'[1].type = CELL_SELECTED
                   /\ events'[1].payload.cellId = C
                   /\ selectedCellId' = C
              ELSE /\ events' = <<>>
                   /\ notified' = <<>>
                   /\ currentHoveredCellId' = currentHoveredCellId
                   /\ StoreUnchanged
      ]_vars

\* the pointer went down on a cell other than the selected one
C11_Witness ==
    /\ lastOp.name = "onPointerDown"
    /\ getCellIdFromPoint(lastOp.arg) # NULL
    /\ Len(events) = 1
    /\ events[1].type = CELL_SELECTED
    /\ selectedCellId = events[1].payload.cellId
    /\ Len(notified) = 1
    /\ Cardinality(DOMAIN cells) > 1

---------------------------------------------------------------------------
(* Properties of the rendering *)

\* the colour the claim gives a stored state
StateColor(state) ==
    CASE state = SELECTED -> "#00ff88"
      [] state = HOVERED -> "#44aaff"
      [] state = OWNED -> "#ffaa00"
      [] OTHER -> "#ffffff"

\* C12: the colour of a rendered cell follows the precedence selected
\* pointer > hover pointer > stored state > default: the cell whose id is
\* selectedCellId gets the selected colour whatever its stored state and
\* even when it is hovered too; a cell whose id is only hoveredCellId gets
\* the hover colour; any other cell gets the colour of its stored state
\* (OWNED has a colour of its own), and the default colour without a record.
C12_ColorPrecedence ==
    lastOp.name = "render" =>
        LET a == apiState[1]
        IN  /\ \A c \in CellIds :
                 /\ c = a.selectedCellId => colors[c] = "#00ff88"
                 /\ (c # a.selectedCellId /\ c = a.hoveredCellId)
                        => colors[c] = "#44aaff"
                 /\ (c \notin {a.selectedCellId, a.hoveredCellId}
                        /\ c \in DOMAIN a.cells)
                        => colors[c] = StateColor(a.cells[c].state)
                 /\ (c \notin {a.selectedCellId, a.hoveredCellId}
                        /\ c \notin DOMAIN a.cells)
                        => colors[c] = "#ffffff"
            /\ StateColor(OWNED) \notin
                   {StateColor(DEFAULT), StateColor(HOVERED), StateColor(SELECTED)}

\* a render in which the selected cell is also hovered and stored as owned,
\* a second cell is only hovered but stored as selected, and a third is
\* stored as owned
C12_Witness ==
    /\ lastOp.name = "render"
    /\ \E c, d, e \in CellIds :
          LET a == apiState[1]
          IN  /\ a.selectedCellId = c /\ c \in DOMAIN a.cells
              /\ a.cells[c].state = HOVERED
              /\ colors[c] = "#00ff88"
              /\ d # c /\ a.hoveredCellId = d /\ d \in DOMAIN a.cells
              /\ a.cells[d].state = SELECTED
              /\ colors[d] = "#44aaff"
              /\ e \notin {c, d} /\ e \in DOMAIN a.cells
              /\ a.cells[e].state = OWNED
              /\ colors[e] = "#ffaa00"

---------------------------------------------------------------------------
(* Properties of the event bus *)

\* the calls of the interaction handlers
HandlerCalls == {"handleCellSelect", "handleCellHoverEnter", "handleCellHoverExit"}

\* C13: after any sequence of registrations and unsubscribes, the emit of
\* an event of type T invokes, within the emitting call, exactly the
\* callbacks registered for T and not unsubscribed since, each once with
\* that event and in registration order, and no callback that is registered
\* for other types only.
C13_EmitToRegistered ==
    [][lastOp'.name \in HandlerCalls
       => /\ Len(events') = 1
          /\ LET T == events'[1].type
             IN  /\ Len(heard') = Len(registered[T])
                 /\ \A j \in 1..Len(heard') :
                        /\ heard'[j].listener = registered[T][j]
                        /\ heard'[j].event = events'[1]
      ]_vars

\* callback 2 was registered before callback 1 for the emitted type and
\* both heard the event in that order
C13_Witness ==
    /\ lastOp.name = "handleCellSelect"
    /\ registered[CELL_SELECTED] = <<2, 1>>
    /\ Len(heard) = 2
    /\ heard[1].listener = 2
    /\ heard[2].listener = 1
    /\ heard[2].event.type = CELL_SELECTED

\* the callbacks the emit of an event of type T reaches
ListenersFor(T) == IF T \in DOMAIN eventListeners THEN eventListeners[T] ELSE <<>>

\* the place of the first callback in ls that throws, 0 when none does
FirstThrower(ls) ==
    IF \E j \in 1..Len(ls) : ls[j] \in throwers
    THEN CHOOSE j \in 1..Len(ls) :
             /\ ls[j] \in throwers
             /\ \A i \in 1..(j - 1) : ls[i] \notin throwers
    ELSE 0

\* C14: when a callback throws during the emit of a handler, the exception
\* leaves the handler (it reaches the caller of the pointer action), the
\* callbacks registered after the throwing one are not invoked, and the
\* store call that follows the emit is not made: the store is as before.
C14_ListenerThrows ==
    [][(/\ lastOp'.name \in HandlerCalls
        /\ FirstThrower(ListenersFor(events'[1].type)) > 0)
       => LET ls == ListenersFor(events'[1].type)
              k == FirstThrower(ls)
          IN  /\ threw'
              /\ Len(heard') = k
              /\ \A j \in 1..k : heard'[j].listener = ls[j]
              /\ notified' = <<>>
              /\ StoreUnchanged
      ]_vars

\* a selection was refused by the first of two callbacks while another
\* cell was hovered and none selected
C14_Witness ==
    /\ lastOp.name = "handleCellSelect"
    /\ threw
    /\ Len(ListenersFor(CELL_SELECTED)) = 2
    /\ Len(heard) = 1
    /\ heard[1].listener \in throwers
    /\ hoveredCellId \notin {NULL, lastOp.arg}
    /\ selectedCellId = NULL
    /\ lastOp.arg \notin DOMAIN cells

---------------------------------------------------------------------------
(* Properties of the store with failing subscribers *)

\* C15: a subscriber that throws is not isolated: whenever selectCell,
\* clearSelection or setHoveredCell notifies and a subscriber throws, the
\* exception leaves the call, the subscribers after the throwing one are not
\* notified, and the mutation stays applied (the throwing subscriber was
\* handed the mutated state).
C15_SubscriberThrows ==
    [][(/\ lastOp'.name \in StoreMutations
        /\ FirstThrower(subscribers) > 0)
       => LET k == FirstThrower(subscribers)
          IN  /\ threw' = (notified' # <<>>)
              /\ lastOp'.name \in {"selectCell", "clearSelection"} => threw'
              /\ threw' =>
                    /\ Len(notified') = k
                    /\ \A j \in 1..k :
                          /\ notified'[j].listener = subscribers[j]
                          /\ notified'[j].snapshot = StoreViewAfter
                    /\ lastOp'.name = "selectCell" =>
                          /\ selectedCellId' = lastOp'.arg
                          /\ RecAfter(lastOp'.arg).state = SELECTED
                    /\ lastOp'.name = "clearSelection" =>
                          /\ selectedCellId' = NULL
                          /\ selectedCellId # NULL =>
                                RecAfter(selectedCellId).state = DEFAULT
                    /\ lastOp'.name = "setHoveredCell" =>
                          /\ hoveredCellId # lastOp'.arg
                          /\ hoveredCellId' = lastOp'.arg
      ]_vars

\* selectCell threw out of the first of two subscribers and the cell is
\* selected nevertheless
C15_Witness ==
    /\ lastOp.name = "selectCell"
    /\ threw
    /\ Len(subscribers) = 2
    /\ Len(notified) = 1
    /\ notified[1].listener \in throwers
    /\ selectedCellId = lastOp.arg
    /\ Rec(lastOp.arg).state = SELECTED

---------------------------------------------------------------------------
(* Properties of the visible region *)

\* C16: whatever the estimate of the angular step - any non-negative
\* value, 0 included, or none for want of a neighbour - the ring count of
\* the visible cell set lies between MIN_GRID_RINGS and MAX_GRID_RINGS.
C16_RingsClamped ==
    hexCells # <<>> =>
        /\ hexCells[1].rings >= MIN_GRID_RINGS
        /\ hexCells[1].rings <= MAX_GRID_RINGS

\* a frame recomputed the visible set with an estimate of 0
C16_Witness ==
    /\ lastOp.name = "frame"
    /\ recomputes = 1
    /\ hexCells[1].estimate = 0
    /\ hexCells[1].rings = MAX_GRID_RINGS

\* the least whole number of steps that covers the angle
StepsToCover(angle, step) ==
    CHOOSE n \in 0..angle : n * step >= angle /\ (n - 1) * step < angle

\* C17: the ring count is clamp(ceil(98 degrees / step), 8, 140), where
\* step is the estimate, or 1 degree when there is no estimate (no error is
\* raised then); a step of 6 degrees gives 17 rings.
C17_RingCount ==
    hexCells # <<>> =>
        LET e == hexCells[1].estimate
            step == IF e = NoRingStep THEN degToRad(1) ELSE e
            n == IF step = 0 THEN MAX_GRID_RINGS + 1
                 ELSE StepsToCover(degToRad(98), step)
        IN  /\ hexCells[1].rings =
                   IF n < 8 THEN 8 ELSE IF n > 140 THEN 140 ELSE n
            /\ e = degToRad(6) => hexCells[1].rings = 17
            /\ e = NoRingStep => hexCells[1].rings = 98 /\ ~threw

\* a frame recomputed the visible set with an estimate of 6 degrees
C17_Witness ==
    /\ lastOp.name = "frame"
    /\ recomputes = 1
    /\ hexCells[1].estimate = degToRad(6)
    /\ hexCells[1].rings = 17

\* the frame whose camera faces a cell other than the memoized centre
FrameElsewhere ==
    /\ lastOp'.name = "frame"
    /\ lastOp'.arg \notin {0, viewCenterCellId}

\* C18: the visible cell set is recomputed only by a frame whose
\* camera-facing cell differs from the memoized centre (which then becomes
\* that cell); a frame that faces the memoized centre, or whose camera is at
\* distance 0, leaves the centre and the visible set as they are; so does
\* every store or pointer activity, although it makes HexGrid render.
C18_RecomputeOnlyOnNewCenter ==
    [][/\ recomputes' > 0 => FrameElsewhere
       /\ FrameElsewhere =>
             /\ recomputes' = 1
             /\ viewCenterCellId' = lastOp'.arg
             /\ hexCells'[1].centerCell = lastOp'.arg
       /\ ~FrameElsewhere =>
             /\ recomputes' = 0
             /\ UNCHANGED <<viewCenterCellId, hexCells>>
      ]_vars

\* a pointer-down made HexGrid render the new selection, after the camera
\* had moved the centre, without recomputing the visible set
C18_Witness ==
    /\ lastOp.name = "onPointerDown"
    /\ Len(notified) = 1
    /\ selectedCellId # NULL
    /\ colors[selectedCellId] = "#00ff88"
    /\ viewCenterCellId # InitialCenterCellId
    /\ hexCells[1].centerCell = viewCenterCellId
    /\ recomputes = 0

---------------------------------------------------------------------------
(* Properties of the scene's teardown *)

\* C19: when the hex-grid scene is torn down the pointer mapper's
\* currentHoveredCellId is reset to null (so that the first pointer-move
\* after a remount is a fresh hover-enter): while HexGrid is not mounted the
\* memo is null.
C19_TeardownResetsMemo ==
    ~mounted => currentHoveredCellId = NULL

---------------------------------------------------------------------------
(* Properties of the cell records *)

\* C20: a cell record is created when its id is first referred to and is
\* never destroyed: selectCell, clearSelection and setHoveredCell only add
\* ids to the cells Map, a call that names a cell leaves a record for it,
\* and the id field of every record is the key it is stored under.
C20_RecordsPersist ==
    [][lastOp'.name \in StoreMutations
       => /\ DOMAIN cells \subseteq DOMAIN cells'
          /\ lastOp'.arg # NULL => lastOp'.arg \in DOMAIN cells'
          /\ DOMAIN cells' \subseteq DOMAIN cells \cup {lastOp'.arg}
          /\ \A c \in DOMAIN cells' : RecAfter(c).id = c
      ]_vars

\* the selection was cleared and the record of the deselected cell is
\* still there, beside another one
C20_Witness ==
    /\ lastOp.name = "clearSelection"
    /\ prevOp.name = "selectCell"
    /\ prevOp.arg \in DOMAIN cells
    /\ Rec(prevOp.arg).id = prevOp.arg
    /\ Rec(prevOp.arg).state = DEFAULT
    /\ Cardinality(DOMAIN cells) > 1

---------------------------------------------------------------------------
(* Properties of the coordinate conversions *)

\* C21: for every latitude in (-90, 90), every longitude in [-180, 180) and
\* every positive radius, vector3ToLatLng(latLngToVector3(lat, lng, R))
\* gives back (lat, lng), and the longitude it returns lies in [-180, 180).
C21_RoundTrip ==
    geo.latLng # <<>> =>
        /\ geo.latLng[1].lat = geo.lat
        /\ geo.latLng[1].lng = geo.lng
        /\ geo.latLng[1].lng >= 0 - 180
        /\ geo.latLng[1].lng < 180

\* the round trip at the radii whose squares are doubles other than 0 and
\* Infinity
RoundTripAtOrdinaryRadius ==
    (~SquaresOverflow(geo.exp) /\ ~SquaresVanish(geo.exp)) => C21_RoundTrip

\* the longitude returned is in [-180, 180) at every radius
LongitudeWrapped ==
    geo.latLng # <<>> =>
        geo.latLng[1].lng >= 0 - 180 /\ geo.latLng[1].lng < 180

---------------------------------------------------------------------------
(* Properties of the pointer mapper as the only caller *)

\* no callback registered for a domain event throws
NoListenerThrows ==
    \A t \in DOMAIN eventListeners :
        \A i \in 1..Len(eventListeners[t]) : eventListeners[t][i] \notin throwers

\* C22: when only the pointer callbacks onPointerDown, onPointerMove and
\* onPointerLeave act, from the initial state and with listeners that do not
\* throw, the mapper's currentHoveredCellId equals the store's
\* hoveredCellId after every callback.
C22_MemoEqualsStoreHover ==
    NoListenerThrows => currentHoveredCellId = hoveredCellId

\* the pointer has moved from one cell to another, which is the selected
\* one, and callbacks heard both events
C22_Witness ==
    /\ NoListenerThrows
    /\ lastOp.name = "onPointerMove"
    /\ Len(events) = 2
    /\ heard # <<>>
    /\ currentHoveredCellId # NULL
    /\ currentHoveredCellId = hoveredCellId
    /\ selectedCellId = hoveredCellId

---------------------------------------------------------------------------
(* Properties of the stored hover state *)

\* C23: in every state reached by selectCell, clearSelection and
\* setHoveredCell calls, a hoveredCellId that is not null and differs from
\* selectedCellId names a cell whose record has stored state HOVERED.
C23_HoveredRecordIsHovered ==
    (hoveredCellId # NULL /\ hoveredCellId # selectedCellId)
        => /\ hoveredCellId \in DOMAIN cells
           /\ Rec(hoveredCellId).state = HOVERED

\* C24: in every state reached by selectCell, clearSelection and
\* setHoveredCell calls, at most one record has stored state HOVERED, and
\* the id of one that has is hoveredCellId: no HOVERED record is left behind
\* when the hover moves or the hovered cell is selected.
C24_AtMostOneHovered ==
    \A c \in DOMAIN cells : Rec(c).state = HOVERED => c = hoveredCellId

\* the hover has moved off a cell after another cell was selected: of three
\* records one is HOVERED, that of the hovered cell
C24_Witness ==
    /\ lastOp.name = "setHoveredCell"
    /\ prevOp.name = "selectCell"
    /\ hoveredCellId = lastOp.arg
    /\ hoveredCellId \notin {NULL, selectedCellId}
    /\ Cardinality(DOMAIN cells) = 3
    /\ {c \in DOMAIN cells : Rec(c).state = HOVERED} = {hoveredCellId}
    /\ \E c \in DOMAIN cells : Rec(c).state = DEFAULT

---------------------------------------------------------------------------
(* Properties of the stream of hover events *)

\* a stream of hover events continues an alternation in which the cell
\* open (null for none) was announced hovered last
RECURSIVE Alternates(_, _)
Alternates(open, stream) ==
    IF stream = <<>> THEN TRUE
    ELSE LET e == Head(stream)
         IN  IF e.type = CELL_HOVERED
             THEN open = NULL /\ Alternates(e.payload.cellId, Tail(stream))
             ELSE open = e.payload.cellId /\ Alternates(NULL, Tail(stream))

---------------------------------------------------------------------------
(* Properties of the pointer actions *)

\* C26: in a select, hover-enter or hover-exit action the listeners of the
\* emitted event run before the store is mutated and before any store
\* subscriber is notified: each of them finds the store as it was before
\* the action, a CELL_SELECTED listener the selectedCellId from before the
\* selection; unless one of them throws they have all run when the store
\* changes.
C26_ListenersBeforeStore ==
    [][(lastOp'.name \in ActionTypes /\ events' # <<>>)
       => /\ \A j \in 1..Len(heard') :
                /\ heard'[j].store = StoreView
                /\ heard'[j].notified = 0
                /\ heard'[j].store.selectedCellId = selectedCellId
          /\ NoListenerThrows =>
                Len(heard') = Len(ListenersFor(events'[1].type))
      ]_vars

\* a select action on a cell other than the selected one: the listener saw
\* the earlier selection and no notification, the subscriber came after
C26_Witness ==
    /\ lastOp.name = "select"
    /\ heard # <<>>
    /\ heard[1].store.selectedCellId \notin {NULL, lastOp.arg}
    /\ heard[1].notified = 0
    /\ selectedCellId = lastOp.arg
    /\ notified # <<>>
    /\ notified[1].snapshot.selectedCellId = lastOp.arg

\* C27: handleCellHoverExit(cellId) clears the store's hover only when
\* cellId is the hovered cell: a hover-exit for a cell other than the
\* store's hoveredCellId leaves hoveredCellId as it was.
C27_ExitClearsOnlyCurrent ==
    [][(/\ lastOp'.name = "hover-exit"
        /\ events' # <<>>
        /\ events'[1].payload.cellId # hoveredCellId)
       => hoveredCellId' = hoveredCellId
      ]_vars

\* C28: for every cell c and every metadata object, one with a cellId
\* field of its own included, handleCellSelect(c, metadata) emits one
\* CELL_SELECTED event whose payload.cellId is c, the id that becomes the
\* store's selectedCellId.
C28_SelectedEventNamesCell ==
    [][(lastOp'.name = "select" /\ lastOp'.arg # NULL)
       => /\ Len(events') = 1
          /\ events'[1].type = CELL_SELECTED
          /\ events'[1].payload.cellId = lastOp'.arg
          /\ ~threw' => selectedCellId' = lastOp'.arg
      ]_vars

===========================================================================
